---- MODULE Spec2Model ----
(***************************************************************************)
(* Model of the note ingestion run of db/ingest.ts: snapshot diff, one     *)
(* SQLite transaction over all changes, per-file front matter / chunking / *)
(* embedding / store statements, COMMIT followed by the snapshot write,    *)
(* and ROLLBACK in the catch block.                                        *)
(*                                                                         *)
(* Text is measured in blocks of chunkOverlap characters without any       *)
(* separator, so the recursive splitter falls back to its hard split:      *)
(* windows of chunkSize characters that start every chunkSize-chunkOverlap *)
(* characters.                                                             *)
(***************************************************************************)
EXTENDS Integers, Sequences, FiniteSets, TLC

VARIABLES
    files,                  \* the markdown files under rootDirPath: path -> raw file or Absent
    snapshotFile,           \* content of notesGlobDiffFilePath
    db,                     \* the SQLite database as seen by the ingest connection
    journal,                \* SQLite's rollback point: the database as of BEGIN
    pc,                     \* position of the ingest script
    globDiffNotesSnapshotContent,  \* the snapshot file as the run read it (ingest.ts:18)
    changes,                \* globDiff's changes, in processing order
    snapshot,               \* globDiff's new snapshot
    idx,                    \* position of the for-loop in changes (1-based)
    cur,                    \* locals of the current iteration: data, content, chunks, embeddings
    runs,                   \* number of runs started
    preRun,                 \* history: the database when the run started
    lastRun,                \* history: outcome, change set, files and initial store of the previous run
    log,                    \* history: the embed calls and store statements of the run, in order
    txn,                    \* the connection's transaction state and the BEGIN/COMMIT/ROLLBACK of the run
    reply                   \* the result of the last tool call of the MCP server

vars == <<files, snapshotFile, db, journal, pc, globDiffNotesSnapshotContent, changes,
          snapshot, idx, cur, runs, preRun, lastRun, log, txn, reply>>

\* the state of the ingest script
ingestVars == <<files, snapshotFile, journal, pc, globDiffNotesSnapshotContent, changes,
                snapshot, idx, cur, runs, preRun, lastRun, log, txn>>

----------------------------------------------------------------------------
(* Bounds and program constants *)

MaxRuns == 2

chunkSize == 1000
chunkOverlap == 200
EmbeddingDim == 768

Paths == {"a.md", "b.md"}

----------------------------------------------------------------------------
(* JavaScript / SQL values *)

Undef == [undef |-> TRUE]
Null == [null |-> TRUE]
Str(s) == [str |-> s]
Num(n) == [num |-> n]
Arr(items) == [arr |-> items]

IsString(v) == "str" \in DOMAIN v
IsArray(v) == "arr" \in DOMAIN v

\* better-sqlite3 binds a missing named parameter value (undefined) as NULL
Bind(v) == IF v = Undef THEN Null ELSE v

Range(s) == {s[i] : i \in 1..Len(s)}

RECURSIVE FilterStrings(_)
\* Array.prototype.filter((tag) => typeof tag === 'string')
FilterStrings(s) ==
    IF s = <<>> THEN <<>>
    ELSE IF IsString(Head(s)) THEN <<Head(s)>> \o FilterStrings(Tail(s))
         ELSE FilterStrings(Tail(s))

----------------------------------------------------------------------------
(* Files *)

Absent == [absent |-> TRUE]

Body(n, c) == [i \in 1..n |-> c]

RawFile(syntax, title, description, tags, body) ==
    [syntax |-> syntax, title |-> title, description |-> description,
     tags |-> tags, body |-> body]

PlainFile == RawFile("none", Undef, Undef, Undef, Body(1, "a"))
TaggedFile == RawFile("yaml", Str("A"), Undef, Str("x"), Body(6, "b"))
ListedFile == RawFile("yaml", Num(3), Str("D"),
                      Arr(<<Str("x"), Num(7), Str("y"), Str("x"), Str("X")>>),
                      Body(10, "a"))
EmptyFile == RawFile("yaml", Str("A"), Undef, Str("x"), Body(0, "a"))
MalformedFile == RawFile("malformed", Undef, Undef, Undef, Body(1, "b"))

FileVals == {PlainFile, TaggedFile, ListedFile, EmptyFile, MalformedFile}

\* the contents each note takes in the model
FileChoices(p) == IF p = "a.md" THEN FileVals ELSE {TaggedFile}

----------------------------------------------------------------------------
(* External capabilities *)

\* gray-matter: front matter data and the body; throws on malformed front matter
grayMatter(fileContent) ==
    IF fileContent.syntax = "malformed" THEN [ok |-> FALSE]
    ELSE IF fileContent.syntax = "none"
         THEN [ok |-> TRUE,
               data |-> [title |-> Undef, description |-> Undef, tags |-> Undef],
               content |-> fileContent.body]
         ELSE [ok |-> TRUE,
               data |-> [title |-> fileContent.title,
                         description |-> fileContent.description,
                         tags |-> fileContent.tags],
               content |-> fileContent.body]

WindowBlocks == chunkSize \div chunkOverlap
StepBlocks == (chunkSize - chunkOverlap) \div chunkOverlap

RECURSIVE SplitFrom(_, _)
SplitFrom(content, from) ==
    IF from + WindowBlocks - 1 >= Len(content)
    THEN <<SubSeq(content, from, Len(content))>>
    ELSE <<SubSeq(content, from, from + WindowBlocks - 1)>>
         \o SplitFrom(content, from + StepBlocks)

\* RecursiveCharacterTextSplitter.splitText on separator-free text
splitText(content) ==
    IF content = <<>> THEN <<>> ELSE SplitFrom(content, 1)

\* nomic-embed-text: one vector of EmbeddingDim floats per input text
Embedding(text) == [dim |-> EmbeddingDim, of |-> text]

\* new Float32Array(undefined) when embeddings[i] is missing
EmptyFloat32Array == [dim |-> 0, of |-> <<>>]

EmbedAll(input) == [i \in 1..Len(input) |-> Embedding(input[i])]

\* what ollama.embed can answer: one vector per input, one too few, one too many
EmbedResponses(input) ==
    {EmbedAll(input),
     SubSeq(EmbedAll(input), 1, Len(input) - 1),
     EmbedAll(input) \o <<Embedding(<<>>)>>}

----------------------------------------------------------------------------
(* Snapshot differ *)

EmptySnapshot == [p \in Paths |-> Absent]

\* JSON.parse(content || '{}')
ParseSnapshot(content) == IF content.written THEN content.entries ELSE EmptySnapshot

ChangeSet(prev, fs) ==
    {[type |-> "create", filePath |-> p] : p \in {q \in Paths : prev[q] = Absent /\ fs[q] # Absent}}
    \cup
    {[type |-> "update", filePath |-> p] :
        p \in {q \in Paths : prev[q] # Absent /\ fs[q] # Absent /\ prev[q] # fs[q]}}
    \cup
    {[type |-> "delete", filePath |-> p] : p \in {q \in Paths : prev[q] # Absent /\ fs[q] = Absent}}

Orders(S) ==
    {s \in UNION {[1..n -> S] : n \in {Cardinality(S)}} : Range(s) = S}

----------------------------------------------------------------------------
(* Store: tables and prepared statements *)

EmptyDb ==
    [notes |-> {}, tags |-> {}, notes_tags |-> {}, chunks |-> {}, vec_chunks |-> {},
     seq |-> [notes |-> 0, tags |-> 0, chunks |-> 0]]

NoteAt(d, file_path) == {n \in d.notes : n.file_path = file_path}

\* the vector table without the trigger
NoTrigger(vec_chunks, deleted) == vec_chunks

\* trigger delete_chunk_embeddings: after delete on chunks, for each row
delete_chunk_embeddings(vec_chunks, deleted) ==
    {v \in vec_chunks : \A OLD \in deleted : v.chunk_id # OLD.id}

\* insert or replace: the conflicting row is deleted (with its dependents)
\* and a new row with a new id is inserted
upsertNoteReplace(d, file_path, title, description, content) ==
    LET gone == NoteAt(d, file_path)
        ids == {n.id : n \in gone}
        deleted == {c \in d.chunks : c.note_id \in ids}
        id == d.seq.notes + 1
        row == [id |-> id, file_path |-> file_path, title |-> Bind(title),
                description |-> Bind(description), content |-> content]
    IN [db |-> [d EXCEPT !.notes = (@ \ gone) \cup {row},
                         !.notes_tags = {l \in @ : l.note_id \notin ids},
                         !.chunks = @ \ deleted,
                         !.vec_chunks = delete_chunk_embeddings(@, deleted),
                         !.seq.notes = id],
        id |-> id]

\* a plain insert into a table without the unique file_path
upsertNoteInsert(d, file_path, title, description, content) ==
    LET id == d.seq.notes + 1
        row == [id |-> id, file_path |-> file_path, title |-> Bind(title),
                description |-> Bind(description), content |-> content]
    IN [db |-> [d EXCEPT !.notes = @ \cup {row}, !.seq.notes = id], id |-> id]

\* an update that keeps the old title and description when the new one is NULL
\* (title = coalesce(excluded.title, title))
upsertNoteCoalesce(d, file_path, title, description, content) ==
    IF NoteAt(d, file_path) # {}
    THEN LET old == CHOOSE n \in NoteAt(d, file_path) : TRUE
             new == [old EXCEPT !.content = content,
                                !.title = IF Bind(title) = Null THEN @ ELSE Bind(title),
                                !.description =
                                    IF Bind(description) = Null THEN @ ELSE Bind(description)]
         IN [db |-> [d EXCEPT !.notes = (@ \ {old}) \cup {new}], id |-> old.id]
    ELSE LET id == d.seq.notes + 1
             row == [id |-> id, file_path |-> file_path, title |-> Bind(title),
                     description |-> Bind(description), content |-> content]
         IN [db |-> [d EXCEPT !.notes = @ \cup {row}, !.seq.notes = id], id |-> id]

\* insert ... on conflict(file_path) do update ... returning id
upsertNote(d, file_path, title, description, content) ==
    IF NoteAt(d, file_path) # {}
    THEN LET old == CHOOSE n \in NoteAt(d, file_path) : TRUE
             new == [old EXCEPT !.content = content, !.title = Bind(title),
                                !.description = Bind(description)]
         IN [db |-> [d EXCEPT !.notes = (@ \ {old}) \cup {new}], id |-> old.id]
    ELSE LET id == d.seq.notes + 1
             row == [id |-> id, file_path |-> file_path, title |-> Bind(title),
                     description |-> Bind(description), content |-> content]
         IN [db |-> [d EXCEPT !.notes = @ \cup {row}, !.seq.notes = id], id |-> id]

\* delete from chunks where id = :note_id
deleteChunksById(d, note_id) ==
    LET deleted == {c \in d.chunks : c.id = note_id}
    IN [d EXCEPT !.chunks = @ \ deleted,
                 !.vec_chunks = delete_chunk_embeddings(@, deleted)]

\* delete from chunks where note_id = :note_id (fires the trigger per row)
deleteChunksByNoteId(d, note_id) ==
    LET deleted == {c \in d.chunks : c.note_id = note_id}
    IN [d EXCEPT !.chunks = @ \ deleted,
                 !.vec_chunks = delete_chunk_embeddings(@, deleted)]

\* a statement that deletes no link
deleteNotesTagsKeep(d, note_id) == d

\* delete from notes_tags where note_id = :note_id
deleteNotesTagsByNoteId(d, note_id) ==
    [d EXCEPT !.notes_tags = {l \in @ : l.note_id # note_id}]

\* the delete without the foreign key on notes_tags
deleteNoteKeepLinks(d, file_path) ==
    LET gone == NoteAt(d, file_path)
        ids == {n.id : n \in gone}
        deleted == {c \in d.chunks : c.note_id \in ids}
    IN [d EXCEPT !.notes = @ \ gone,
                 !.chunks = @ \ deleted,
                 !.vec_chunks = delete_chunk_embeddings(@, deleted)]

\* delete from notes, without the where clause
deleteNoteEvery(d, file_path) ==
    [d EXCEPT !.notes = {},
              !.notes_tags = {},
              !.chunks = {},
              !.vec_chunks = delete_chunk_embeddings(@, d.chunks)]

\* the delete followed by a removal of the tags that lost their last link
deleteNoteDropsTags(d, file_path) ==
    LET gone == NoteAt(d, file_path)
        ids == {n.id : n \in gone}
        deleted == {c \in d.chunks : c.note_id \in ids}
        links == {l \in d.notes_tags : l.note_id \notin ids}
    IN [d EXCEPT !.notes = @ \ gone,
                 !.notes_tags = links,
                 !.tags = {t \in @ : \E l \in links : l.tag_id = t.id},
                 !.chunks = @ \ deleted,
                 !.vec_chunks = delete_chunk_embeddings(@, deleted)]

\* delete from notes where file_path = :file_path, with the foreign keys'
\* on delete cascade on notes_tags and chunks
deleteNote(d, file_path) ==
    LET gone == NoteAt(d, file_path)
        ids == {n.id : n \in gone}
        deleted == {c \in d.chunks : c.note_id \in ids}
    IN [d EXCEPT !.notes = @ \ gone,
                 !.notes_tags = {l \in @ : l.note_id \notin ids},
                 !.chunks = @ \ deleted,
                 !.vec_chunks = delete_chunk_embeddings(@, deleted)]

\* the lower-case form of a tag name
Lower(name) == IF name = "X" THEN "x" ELSE IF name = "Y" THEN "y" ELSE name

\* the upsert on a name column that compares without case (collate nocase)
upsertTagNoCase(d, name) ==
    IF \E t \in d.tags : Lower(t.name) = Lower(name)
    THEN [db |-> d, id |-> (CHOOSE t \in d.tags : Lower(t.name) = Lower(name)).id]
    ELSE LET id == d.seq.tags + 1
         IN [db |-> [d EXCEPT !.tags = @ \cup {[id |-> id, name |-> name]},
                              !.seq.tags = id],
             id |-> id]

\* insert into tags ... on conflict(name) do update set name = excluded.name returning id
upsertTag(d, name) ==
    IF \E t \in d.tags : t.name = name
    THEN [db |-> d, id |-> (CHOOSE t \in d.tags : t.name = name).id]
    ELSE LET id == d.seq.tags + 1
         IN [db |-> [d EXCEPT !.tags = @ \cup {[id |-> id, name |-> name]},
                              !.seq.tags = id],
             id |-> id]

\* a plain insert into notes_tags: a pair that is already present violates
\* the primary key and the statement throws
insertNoteTagStrict(d, note_id, tag_id) ==
    IF [note_id |-> note_id, tag_id |-> tag_id] \in d.notes_tags
    THEN [ok |-> FALSE, db |-> d]
    ELSE [ok |-> TRUE,
          db |-> [d EXCEPT !.notes_tags = @ \cup {[note_id |-> note_id, tag_id |-> tag_id]}]]

\* insert or ignore into notes_tags: a pair that is already present is left
\* alone (primary key (note_id, tag_id)) and the statement succeeds
insertNoteTag(d, note_id, tag_id) ==
    [ok |-> TRUE,
     db |-> [d EXCEPT !.notes_tags = @ \cup {[note_id |-> note_id, tag_id |-> tag_id]}]]

\* the insert with a one-based chunk_index
insertChunkOneBased(d, note_id, chunk_index, content) ==
    LET id == d.seq.chunks + 1
        row == [id |-> id, note_id |-> note_id, chunk_index |-> chunk_index + 1,
                content |-> content]
    IN [db |-> [d EXCEPT !.chunks = @ \cup {row}, !.seq.chunks = id],
        lastInsertRowid |-> id]

\* insert into chunks ...; lastInsertRowid is the new id
insertChunk(d, note_id, chunk_index, content) ==
    LET id == d.seq.chunks + 1
        row == [id |-> id, note_id |-> note_id, chunk_index |-> chunk_index,
                content |-> content]
    IN [db |-> [d EXCEPT !.chunks = @ \cup {row}, !.seq.chunks = id],
        lastInsertRowid |-> id]

\* insert into vec_chunks: vec0 rejects a vector that is not float[768]
\* and a chunk_id that is already present
insertVecChunk(d, chunk_id, chunk_embeddings) ==
    IF chunk_embeddings.dim # EmbeddingDim
       \/ \E v \in d.vec_chunks : v.chunk_id = chunk_id
    THEN [ok |-> FALSE, db |-> d]
    ELSE [ok |-> TRUE,
          db |-> [d EXCEPT !.vec_chunks =
                     @ \cup {[chunk_id |-> chunk_id,
                              chunk_embeddings |-> chunk_embeddings]}]]

----------------------------------------------------------------------------
(* Per-file processing, ingest.ts:202-258 *)

\* typeof data.title === 'string' ? data.title : undefined
StringOrUndefined(v) == IF IsString(v) THEN v ELSE Undef

\* an extraction that takes tags from an array only
TagsOfArrayOnly(data) ==
    IF IsArray(data.tags) THEN FilterStrings(data.tags.arr) ELSE <<>>

\* tags: a string is one tag, an array keeps its string entries, else none
TagsOf(data) ==
    IF IsString(data.tags) THEN <<data.tags>>
    ELSE IF IsArray(data.tags) THEN FilterStrings(data.tags.arr)
         ELSE <<>>

\* Results of a statement sequence: ok is FALSE when a statement threw, db is
\* what was written so far, ops names the statements run (the throwing one last)

RECURSIVE InsertTags(_, _, _)
\* tags.forEach: upsertTag, then insertNoteTag
InsertTags(d, noteId, tags) ==
    IF tags = <<>> THEN [ok |-> TRUE, db |-> d, ops |-> <<>>]
    ELSE LET t == upsertTag(d, Head(tags).str)
             l == insertNoteTag(t.db, noteId, t.id)
             rest == InsertTags(l.db, noteId, Tail(tags))
         IN IF l.ok
            THEN [rest EXCEPT !.ops = <<"upsertTag", "insertNoteTag">> \o @]
            ELSE [ok |-> FALSE, db |-> l.db, ops |-> <<"upsertTag", "insertNoteTag">>]

RECURSIVE InsertChunks(_, _, _, _, _)
\* chunks.forEach: insertChunk, then insertVecChunk with embeddings[i];
\* a throwing statement ends the loop and leaves what was written so far
InsertChunks(d, noteId, chunks, embeddings, i) ==
    IF i > Len(chunks) THEN [ok |-> TRUE, db |-> d, ops |-> <<>>]
    ELSE LET c == insertChunk(d, noteId, i - 1, chunks[i])
             e == IF i <= Len(embeddings) THEN embeddings[i] ELSE EmptyFloat32Array
             v == insertVecChunk(c.db, c.lastInsertRowid, e)
             rest == InsertChunks(v.db, noteId, chunks, embeddings, i + 1)
         IN IF v.ok
            THEN [rest EXCEPT !.ops = <<"insertChunk", "insertVecChunk">> \o @]
            ELSE [ok |-> FALSE, db |-> v.db, ops |-> <<"insertChunk", "insertVecChunk">>]

\* upsertNote, then the chunks replaced (delete, insert), then the tags
\* replaced (delete links, insert)
StoreFileChunksFirst(d, filePath, data, content, chunks, embeddings) ==
    LET note == upsertNote(d, filePath, StringOrUndefined(data.title),
                           StringOrUndefined(data.description), content)
        chunked == InsertChunks(deleteChunksByNoteId(note.db, note.id), note.id,
                                chunks, embeddings, 1)
        tagged == InsertTags(deleteNotesTagsByNoteId(chunked.db, note.id), note.id,
                             TagsOf(data))
    IN IF chunked.ok
       THEN [tagged EXCEPT !.ops = <<"upsertNote", "deleteChunksByNoteId">> \o chunked.ops
                                       \o <<"deleteNotesTagsByNoteId">> \o @]
       ELSE [chunked EXCEPT !.ops = <<"upsertNote", "deleteChunksByNoteId">> \o @]

\* upsertNote, delete chunks and tag links, insert tags, insert chunks
StoreFile(d, filePath, data, content, chunks, embeddings) ==
    LET note == upsertNote(d, filePath, StringOrUndefined(data.title),
                           StringOrUndefined(data.description), content)
        cleared == deleteNotesTagsByNoteId(deleteChunksByNoteId(note.db, note.id), note.id)
        tagged == InsertTags(cleared, note.id, TagsOf(data))
        chunked == InsertChunks(tagged.db, note.id, chunks, embeddings, 1)
        first == <<"upsertNote", "deleteChunksByNoteId", "deleteNotesTagsByNoteId">>
    IN IF tagged.ok
       THEN [chunked EXCEPT !.ops = first \o tagged.ops \o @]
       ELSE [tagged EXCEPT !.ops = first \o @]

----------------------------------------------------------------------------
(* The ingest script *)

Ended == {"idle", "nochanges", "done", "rolledback", "crashed"}

NoCur == [data |-> Undef, content |-> <<>>, chunks |-> <<>>, embeddings |-> <<>>]

NoRun == [outcome |-> "none", changes |-> {}, files |-> EmptySnapshot, before |-> EmptyDb]

\* a log entry: the embed call (arg: its input) or a store statement of a file
Event(op, filePath, arg) == [op |-> op, filePath |-> filePath, arg |-> arg]

Events(ops, filePath) == [i \in 1..Len(ops) |-> Event(ops[i], filePath, <<>>)]

EndRun(outcome) ==
    lastRun' = [outcome |-> outcome, changes |-> Range(changes), files |-> files,
                before |-> preRun]

\* a catch block that does not roll back
RollbackMissing(d, j) == d

\* ROLLBACK restores the database as of BEGIN
Rollback(d, j) == j

NoTxn == [open |-> FALSE, stmts |-> <<>>]

Ran(t, sql, ok, open) == [open |-> open, stmts |-> Append(t.stmts, [sql |-> sql, ok |-> ok])]

\* db.exec of a transaction statement: BEGIN sets the rollback point, COMMIT
\* makes the writes the committed database, ROLLBACK undoes them; BEGIN inside
\* a transaction and COMMIT or ROLLBACK outside one throw
exec(t, d, j, sql) ==
    CASE sql = "BEGIN" /\ ~t.open ->
             [ok |-> TRUE, db |-> d, journal |-> d, txn |-> Ran(t, sql, TRUE, TRUE)]
      [] sql = "COMMIT" /\ t.open ->
             [ok |-> TRUE, db |-> d, journal |-> d, txn |-> Ran(t, sql, TRUE, FALSE)]
      [] sql = "ROLLBACK" /\ t.open ->
             [ok |-> TRUE, db |-> Rollback(d, j), journal |-> j,
              txn |-> Ran(t, sql, TRUE, FALSE)]
      [] OTHER ->
             [ok |-> FALSE, db |-> d, journal |-> j, txn |-> Ran(t, sql, FALSE, t.open)]

\* a catch block that commits
CatchCommits == "COMMIT"

\* ingest.ts:270: the statement of the catch block
CatchStatement == "ROLLBACK"

\* no tool has been called
NoReply == [tool |-> "none"]

Init ==
    /\ files = [p \in Paths |-> Absent]
    /\ snapshotFile = [written |-> FALSE, entries |-> EmptySnapshot]
    /\ db = EmptyDb
    /\ journal = EmptyDb
    /\ pc = "idle"
    /\ globDiffNotesSnapshotContent = [written |-> FALSE, entries |-> EmptySnapshot]
    /\ changes = <<>>
    /\ snapshot = EmptySnapshot
    /\ idx = 1
    /\ cur = NoCur
    /\ runs = 0
    /\ preRun = EmptyDb
    /\ lastRun = NoRun
    /\ log = <<>>
    /\ txn = NoTxn
    /\ reply = NoReply

\* the user edits, adds or removes a note between two runs
EditFile ==
    /\ pc \in Ended
    /\ runs < MaxRuns
    /\ \E p \in Paths :
        \E v \in FileChoices(p) \cup {Absent} :
          /\ v # files[p]
          /\ files' = [files EXCEPT ![p] = v]
    /\ UNCHANGED <<snapshotFile, db, journal, pc, globDiffNotesSnapshotContent, changes,
                   snapshot, idx, cur, runs, preRun, lastRun, log, txn, reply>>

\* globDiff with saveSnapshot: true
globDiffSaving(saved, prev, fs) ==
    [changes |-> Orders(ChangeSet(prev, fs)), snapshot |-> fs,
     saved |-> [written |-> TRUE, entries |-> fs]]

\* globDiff(..., {snapshot, saveSnapshot: false}): changes and the new snapshot
globDiff(saved, prev, fs) ==
    [changes |-> Orders(ChangeSet(prev, fs)), snapshot |-> fs, saved |-> saved]

\* ingest.ts:18-28: load the snapshot and diff
Diff ==
    /\ pc \in Ended
    /\ runs < MaxRuns
    /\ LET loaded == ParseSnapshot(snapshotFile)
           r == globDiff(snapshotFile, loaded, files)
       IN /\ globDiffNotesSnapshotContent' = snapshotFile
          /\ changes' \in r.changes
          /\ snapshot' = r.snapshot
          /\ snapshotFile' = r.saved
    /\ pc' = "diffed"
    /\ runs' = runs + 1
    /\ idx' = 1
    /\ cur' = NoCur
    /\ preRun' = db
    /\ log' = <<>>
    /\ txn' = NoTxn
    /\ UNCHANGED <<files, db, journal, lastRun, reply>>

\* a script without the early exit
NoChangesNever(ch) == FALSE

\* ingest.ts:157: !changes.length
NoChangesDetected(ch) == Len(ch) = 0

\* ingest.ts:157-160: nothing to do, exit 0
NoChanges ==
    /\ pc = "diffed"
    /\ NoChangesDetected(changes)
    /\ pc' = "nochanges"
    /\ EndRun("nochanges")
    /\ UNCHANGED <<files, snapshotFile, db, journal, globDiffNotesSnapshotContent, changes,
                   snapshot, idx, cur, runs, preRun, log, txn, reply>>

\* ingest.ts:169: BEGIN
Begin ==
    /\ pc = "diffed"
    /\ ~NoChangesDetected(changes)
    /\ LET r == exec(txn, db, journal, "BEGIN")
       IN /\ r.ok
          /\ journal' = r.journal
          /\ txn' = r.txn
    /\ pc' = "processing"
    /\ UNCHANGED <<files, snapshotFile, db, globDiffNotesSnapshotContent, changes, snapshot,
                   idx, cur, runs, preRun, lastRun, log, reply>>

\* a loop that commits after every change
CommitEachChange(j, d) == d

\* ingest.ts:174-261: the loop body holds no COMMIT, the rollback point stays
LoopTransaction(j, d) == j

InLoop == pc = "processing" /\ idx <= Len(changes)

\* ingest.ts:177-182: a delete change
DeleteChange ==
    /\ InLoop
    /\ changes[idx].type = "delete"
    /\ db' = deleteNote(db, changes[idx].filePath)
    /\ journal' = LoopTransaction(journal, db')
    /\ log' = Append(log, Event("deleteNote", changes[idx].filePath, <<>>))
    /\ idx' = idx + 1
    /\ UNCHANGED <<files, snapshotFile, pc, globDiffNotesSnapshotContent, changes,
                   snapshot, cur, runs, preRun, lastRun, txn, reply>>

Throw ==
    /\ pc' = "throwing"
    /\ UNCHANGED <<files, snapshotFile, db, journal, globDiffNotesSnapshotContent, changes,
                   snapshot, idx, cur, runs, preRun, lastRun, log, txn, reply>>

\* ingest.ts:184: readFile rejects (unreadable file)
ReadFails ==
    /\ InLoop
    /\ changes[idx].type # "delete"
    /\ Throw

\* ingest.ts:186: grayMatter throws on malformed front matter
ParseFails ==
    /\ InLoop
    /\ changes[idx].type # "delete"
    /\ ~grayMatter(files[changes[idx].filePath]).ok
    /\ Throw

\* ingest.ts:188-193: no chunks, skip the file
SkipEmpty ==
    /\ InLoop
    /\ changes[idx].type # "delete"
    /\ LET m == grayMatter(files[changes[idx].filePath])
       IN m.ok /\ splitText(m.content) = <<>>
    /\ idx' = idx + 1
    /\ UNCHANGED <<files, snapshotFile, db, journal, pc, globDiffNotesSnapshotContent, changes,
                   snapshot, cur, runs, preRun, lastRun, log, txn, reply>>

\* ingest.ts:184-195: read, parse and split a file that has chunks
ReadFile ==
    /\ InLoop
    /\ changes[idx].type # "delete"
    /\ LET m == grayMatter(files[changes[idx].filePath])
       IN /\ m.ok
          /\ splitText(m.content) # <<>>
          /\ cur' = [data |-> m.data, content |-> m.content,
                     chunks |-> splitText(m.content), embeddings |-> <<>>]
    /\ pc' = "embedding"
    /\ UNCHANGED <<files, snapshotFile, db, journal, globDiffNotesSnapshotContent, changes,
                   snapshot, idx, runs, preRun, lastRun, log, txn, reply>>

\* a request that sends only the first chunk
embedRequestFirstChunk(chunks) == [model |-> "nomic-embed-text", input |-> <<Head(chunks)>>]

\* ingest.ts:197-200: the one request per file, with all its chunks
embedRequest(chunks) == [model |-> "nomic-embed-text", input |-> chunks]

\* ingest.ts:197-200: ollama.embed answers
Embed ==
    /\ pc = "embedding"
    /\ \E r \in EmbedResponses(embedRequest(cur.chunks).input) :
          cur' = [cur EXCEPT !.embeddings = r]
    /\ log' = Append(log, Event("embed", changes[idx].filePath, embedRequest(cur.chunks).input))
    /\ pc' = "storing"
    /\ UNCHANGED <<files, snapshotFile, db, journal, globDiffNotesSnapshotContent, changes,
                   snapshot, idx, runs, preRun, lastRun, txn, reply>>

\* ingest.ts:197-200: ollama.embed rejects
EmbedFails ==
    /\ pc = "embedding"
    /\ Throw

\* ingest.ts:202-260: the store statements of one file, all succeed
StoreNote ==
    /\ pc = "storing"
    /\ LET r == StoreFile(db, changes[idx].filePath, cur.data, cur.content,
                          cur.chunks, cur.embeddings)
       IN /\ r.ok
          /\ db' = r.db
          /\ log' = log \o Events(r.ops, changes[idx].filePath)
    /\ journal' = LoopTransaction(journal, db')
    /\ idx' = idx + 1
    /\ cur' = NoCur
    /\ pc' = "processing"
    /\ UNCHANGED <<files, snapshotFile, globDiffNotesSnapshotContent, changes,
                   snapshot, runs, preRun, lastRun, txn, reply>>

\* ingest.ts:202-258: a store statement throws part way
StoreThrows ==
    /\ pc = "storing"
    /\ LET r == StoreFile(db, changes[idx].filePath, cur.data, cur.content,
                          cur.chunks, cur.embeddings)
       IN /\ ~r.ok
          /\ db' = r.db
          /\ log' = log \o Events(r.ops, changes[idx].filePath)
    /\ pc' = "throwing"
    /\ UNCHANGED <<files, snapshotFile, journal, globDiffNotesSnapshotContent, changes,
                   snapshot, idx, cur, runs, preRun, lastRun, txn, reply>>

\* a catch block that persists the new snapshot
CatchSnapshotSaves(file, new) == [written |-> TRUE, entries |-> new]

\* what the catch block leaves in the snapshot file
CatchSnapshot(file, new) == file

\* ingest.ts:269-274: catch: ROLLBACK, exit 1
CatchRollback ==
    /\ pc = "throwing"
    /\ LET r == exec(txn, db, journal, CatchStatement)
       IN /\ r.ok
          /\ db' = r.db
          /\ journal' = r.journal
          /\ txn' = r.txn
    /\ snapshotFile' = CatchSnapshot(snapshotFile, snapshot)
    /\ pc' = "rolledback"
    /\ cur' = NoCur
    /\ EndRun("rolledback")
    /\ log' = <<>>
    /\ UNCHANGED <<files, globDiffNotesSnapshotContent, changes, snapshot, idx,
                   runs, preRun, reply>>

\* ingest.ts:263: COMMIT after the loop
Commit ==
    /\ pc = "processing"
    /\ idx > Len(changes)
    /\ LET r == exec(txn, db, journal, "COMMIT")
       IN /\ r.ok
          /\ journal' = r.journal
          /\ txn' = r.txn
    /\ pc' = "committed"
    /\ UNCHANGED <<files, snapshotFile, db, globDiffNotesSnapshotContent, changes, snapshot,
                   idx, cur, runs, preRun, lastRun, log, reply>>

\* ingest.ts:265-266: mkdir and writeFile(JSON.stringify(snapshot))
WriteSnapshot ==
    /\ pc = "committed"
    /\ snapshotFile' = [written |-> TRUE, entries |-> snapshot]
    /\ pc' = "done"
    /\ EndRun("done")
    /\ log' = <<>>
    /\ UNCHANGED <<files, db, journal, globDiffNotesSnapshotContent, changes, snapshot, idx,
                   cur, runs, preRun, txn, reply>>

\* ingest.ts:265-273: mkdir or writeFile rejects; the catch block's ROLLBACK
\* then throws because no transaction is active, and the process dies.
\* writeFile may have truncated the file before failing.
WriteSnapshotFails ==
    /\ pc = "committed"
    /\ snapshotFile' \in {snapshotFile, [written |-> FALSE, entries |-> EmptySnapshot]}
    /\ LET r == exec(txn, db, journal, CatchStatement)
       IN /\ ~r.ok
          /\ txn' = r.txn
    /\ pc' = "crashed"
    /\ EndRun("crashed")
    /\ log' = <<>>
    /\ UNCHANGED <<files, db, journal, globDiffNotesSnapshotContent, changes, snapshot, idx,
                   cur, runs, preRun, reply>>

Next ==
    \/ EditFile
    \/ Diff
    \/ NoChanges
    \/ Begin
    \/ DeleteChange
    \/ ReadFails
    \/ ParseFails
    \/ SkipEmpty
    \/ ReadFile
    \/ Embed
    \/ EmbedFails
    \/ StoreNote
    \/ StoreThrows
    \/ CatchRollback
    \/ Commit
    \/ WriteSnapshot
    \/ WriteSnapshotFails

Spec == Init /\ [][Next]_vars

----------------------------------------------------------------------------
(* Runs over one note whose front matter takes every shape of value *)

MaxTags == 2

RECURSIVE TagLists(_)
\* the YAML lists of at most n entries
TagLists(n) ==
    IF n = 0 THEN {<<>>}
    ELSE TagLists(n - 1)
         \cup {Append(l, v) : l \in {m \in TagLists(n - 1) : Len(m) = n - 1},
                              v \in {Str("x"), Str("y"), Num(7), Null}}

\* YAML values of title and description: absent, null, a string, a number, a list
FrontMatterScalars == {Undef, Null, Str("A"), Num(3)}
FrontMatterDescriptions == {Undef, Str("D"), Arr(<<Str("D")>>)}

\* YAML values of tags: absent, null, a number, a string, a boolean, a list
FrontMatterTags ==
    {Undef, Null, Num(7), Str("x"), [bool |-> TRUE]} \cup {Arr(l) : l \in TagLists(MaxTags)}

FrontMatterFiles ==
    {RawFile("yaml", t, d, g, Body(1, "a")) :
        t \in FrontMatterScalars, d \in FrontMatterDescriptions, g \in FrontMatterTags}

InitFrontMatter ==
    /\ files \in {[p \in Paths |-> IF p = "a.md" THEN f ELSE Absent] : f \in FrontMatterFiles}
    /\ snapshotFile = [written |-> FALSE, entries |-> EmptySnapshot]
    /\ db = EmptyDb
    /\ journal = EmptyDb
    /\ pc = "idle"
    /\ globDiffNotesSnapshotContent = [written |-> FALSE, entries |-> EmptySnapshot]
    /\ changes = <<>>
    /\ snapshot = EmptySnapshot
    /\ idx = 1
    /\ cur = NoCur
    /\ runs = 0
    /\ preRun = EmptyDb
    /\ lastRun = NoRun
    /\ log = <<>>
    /\ txn = NoTxn
    /\ reply = NoReply

\* the script on a note set that is not edited between the runs
NextFrontMatter ==
    \/ Diff
    \/ NoChanges
    \/ Begin
    \/ ReadFails
    \/ ReadFile
    \/ Embed
    \/ EmbedFails
    \/ StoreNote
    \/ StoreThrows
    \/ CatchRollback
    \/ Commit
    \/ WriteSnapshot
    \/ WriteSnapshotFails

SpecFrontMatter == InitFrontMatter /\ [][NextFrontMatter]_vars

----------------------------------------------------------------------------
(* The MCP server (mcp/server.ts): three tools over a query_only connection *)

WhiteSpace == {" ", "\t", "\n", "\r"}

UpperCase == <<"A", "B", "C", "D", "E", "F", "G", "H", "I", "J", "K", "L", "M",
               "N", "O", "P", "Q", "R", "S", "T", "U", "V", "W", "X", "Y", "Z">>
LowerCase == <<"a", "b", "c", "d", "e", "f", "g", "h", "i", "j", "k", "l", "m",
               "n", "o", "p", "q", "r", "s", "t", "u", "v", "w", "x", "y", "z">>

toLowerCaseChar(c) ==
    IF \E i \in 1..Len(UpperCase) : UpperCase[i] = c
    THEN LowerCase[CHOOSE i \in 1..Len(UpperCase) : UpperCase[i] = c]
    ELSE c

\* String.prototype.toLowerCase
toLowerCase(t) == [i \in 1..Len(t) |-> toLowerCaseChar(t[i])]

RECURSIVE trimStart(_)
trimStart(t) ==
    IF t # <<>> /\ Head(t) \in WhiteSpace THEN trimStart(Tail(t)) ELSE t

RECURSIVE trimEnd(_)
trimEnd(t) ==
    IF t # <<>> /\ t[Len(t)] \in WhiteSpace THEN trimEnd(SubSeq(t, 1, Len(t) - 1)) ELSE t

\* String.prototype.trim
trim(t) == trimEnd(trimStart(t))

\* String.prototype.includes
includes(t, word) ==
    \E i \in 1..Len(t) : i + Len(word) - 1 <= Len(t) /\ SubSeq(t, i, i + Len(word) - 1) = word

\* String.prototype.startsWith
startsWith(t, word) == Len(word) <= Len(t) /\ SubSeq(t, 1, Len(word)) = word

select == <<"s", "e", "l", "e", "c", "t">>
with == <<"w", "i", "t", "h">>

\* the queries a client sends

\* select file_path from notes
SelectPaths ==
    <<"s", "e", "l", "e", "c", "t", " ", "f", "i", "l", "e", "_", "p", "a",
      "t", "h", " ", "f", "r", "o", "m", " ", "n", "o", "t", "e", "s">>

\*  \tSELECT name FROM tags\n
SelectTagsPadded ==
    <<" ", "\t", "S", "E", "L", "E", "C", "T", " ", "n", "a", "m", "e", " ",
      "F", "R", "O", "M", " ", "t", "a", "g", "s", "\n">>

\* WITH t AS (SELECT 1) SELECT * FROM t
WithSelect ==
    <<"W", "I", "T", "H", " ", "t", " ", "A", "S", " ", "(", "S", "E", "L",
      "E", "C", "T", " ", "1", ")", " ", "S", "E", "L", "E", "C", "T", " ",
      "*", " ", "F", "R", "O", "M", " ", "t">>

\* with t as (select 1) delete from notes returning id
WithDeleteReturning ==
    <<"w", "i", "t", "h", " ", "t", " ", "a", "s", " ", "(", "s", "e", "l",
      "e", "c", "t", " ", "1", ")", " ", "d", "e", "l", "e", "t", "e", " ",
      "f", "r", "o", "m", " ", "n", "o", "t", "e", "s", " ", "r", "e", "t",
      "u", "r", "n", "i", "n", "g", " ", "i", "d">>

\* with t as (select 1) delete from chunks
WithDelete ==
    <<"w", "i", "t", "h", " ", "t", " ", "a", "s", " ", "(", "s", "e", "l",
      "e", "c", "t", " ", "1", ")", " ", "d", "e", "l", "e", "t", "e", " ",
      "f", "r", "o", "m", " ", "c", "h", "u", "n", "k", "s">>

\* delete from notes
DeleteNotes ==
    <<"d", "e", "l", "e", "t", "e", " ", "f", "r", "o", "m", " ", "n", "o",
      "t", "e", "s">>

\* insert into tags (name) select 'z'
InsertSelect ==
    <<"i", "n", "s", "e", "r", "t", " ", "i", "n", "t", "o", " ", "t", "a",
      "g", "s", " ", "(", "n", "a", "m", "e", ")", " ", "s", "e", "l", "e",
      "c", "t", " ", "'", "z", "'">>

\* pragma query_only = 0
PragmaOff ==
    <<"p", "r", "a", "g", "m", "a", " ", "q", "u", "e", "r", "y", "_", "o",
      "n", "l", "y", " ", "=", " ", "0">>

\* -- n\nselect 1
CommentedSelect ==
    <<"-", "-", " ", "n", "\n", "s", "e", "l", "e", "c", "t", " ", "1">>

\* selectx
Selectx ==
    <<"s", "e", "l", "e", "c", "t", "x">>

\* select 1; delete from notes
SelectThenDelete ==
    <<"s", "e", "l", "e", "c", "t", " ", "1", ";", " ", "d", "e", "l", "e",
      "t", "e", " ", "f", "r", "o", "m", " ", "n", "o", "t", "e", "s">>

\* the empty string
EmptyQuery ==
    <<>>

Queries ==
    {SelectPaths, SelectTagsPadded, WithSelect, WithDeleteReturning, WithDelete,
     DeleteNotes, InsertSelect, PragmaOff, CommentedSelect, Selectx, SelectThenDelete,
     EmptyQuery}

\* SQLite's reading of a query: valid is FALSE when prepare throws (syntax
\* error, more than one statement, nothing to prepare), reader tells whether
\* the statement returns rows, writes names the table it changes, rows what
\* it returns
Statement(valid, reader, writes, rows) ==
    [valid |-> valid, reader |-> reader, writes |-> writes, rows |-> rows]

prepare(query) ==
    CASE query = SelectPaths -> Statement(TRUE, TRUE, "none", "file_path")
      [] query = SelectTagsPadded -> Statement(TRUE, TRUE, "none", "name")
      [] query \in {WithSelect, CommentedSelect} -> Statement(TRUE, TRUE, "none", "one")
      [] query = WithDeleteReturning -> Statement(TRUE, TRUE, "notes", "id")
      [] query = WithDelete -> Statement(TRUE, FALSE, "chunks", "none")
      [] query = DeleteNotes -> Statement(TRUE, FALSE, "notes", "none")
      [] query = InsertSelect -> Statement(TRUE, FALSE, "tags", "none")
      [] query = PragmaOff -> Statement(TRUE, FALSE, "pragma", "none")
      [] OTHER -> Statement(FALSE, FALSE, "none", "none")

\* the rows a statement returns
Rows(d, rows) ==
    CASE rows = "file_path" -> {n.file_path : n \in d.notes}
      [] rows = "name" -> {t.name : t \in d.tags}
      [] rows = "id" -> {n.id : n \in d.notes}
      [] rows = "one" -> {1}
      [] OTHER -> {}

\* the store after a statement's writes
Written(d, table) ==
    CASE table = "notes" ->
             [d EXCEPT !.notes = {}, !.notes_tags = {}, !.chunks = {},
                       !.vec_chunks = delete_chunk_embeddings(@, d.chunks)]
      [] table = "chunks" ->
             [d EXCEPT !.chunks = {},
                       !.vec_chunks = delete_chunk_embeddings(@, d.chunks)]
      [] table = "tags" ->
             [d EXCEPT !.tags = @ \cup {[id |-> d.seq.tags + 1, name |-> "z"]},
                       !.seq.tags = @ + 1]
      [] OTHER -> d

\* a connection without the pragma
query_only_unset == FALSE

\* server.ts: db.pragma('query_only = 1')
query_only == TRUE

\* db.prepare(query).all(): prepare throws on an invalid string, all() throws
\* on a statement that returns no rows, SQLite refuses a write on a
\* query_only connection
all(d, query) ==
    LET st == prepare(query)
    IN IF ~st.valid \/ ~st.reader \/ (st.writes # "none" /\ query_only)
       THEN [ok |-> FALSE, db |-> d, rows |-> {}]
       ELSE [ok |-> TRUE, db |-> Written(d, st.writes), rows |-> Rows(d, st.rows)]

ToolError(tool, args, text, prepared) ==
    [tool |-> tool, args |-> args, isError |-> TRUE, text |-> text, prepared |-> prepared]

ToolResult(tool, args, text, prepared) ==
    [tool |-> tool, args |-> args, isError |-> FALSE, text |-> text, prepared |-> prepared]

\* the tables and indexes created by ingest.ts
Schema ==
    [tables |-> {"chunks", "notes", "notes_tags", "tags", "vec_chunks"},
     indexes |-> {"idx_notes_file_path", "idx_tags_name"}]

\* Tool 1: three fixed read statements over sqlite_master and table_info
get_notes_db_schema ==
    /\ reply' = ToolResult("get_notes_db_schema", <<>>, Schema, <<>>)
    /\ db' = db
    /\ UNCHANGED ingestVars

\* a check that looks for the word anywhere in the query
trimmedQueryIncludes(trimmedQuery, word) == includes(trimmedQuery, word)

\* server.ts: trimmedQuery.startsWith(word)
trimmedQueryStartsWith(trimmedQuery, word) == startsWith(trimmedQuery, word)

\* Tool 2: the prefix check, then db.prepare(query).all()
query_notes_db ==
    \E query \in Queries :
        LET trimmedQuery == toLowerCase(trim(query))
            r == all(db, query)
            args == [query |-> query]
        IN /\ IF ~trimmedQueryStartsWith(trimmedQuery, select)
                 /\ ~trimmedQueryStartsWith(trimmedQuery, with)
              THEN /\ reply' = ToolError("query_notes_db", args,
                                         "Error: Only SELECT and WITH statements are allowed",
                                         <<>>)
                   /\ db' = db
              ELSE /\ reply' = IF r.ok
                               THEN ToolResult("query_notes_db", args, r.rows, <<query>>)
                               ELSE ToolError("query_notes_db", args,
                                              "Error executing query", <<query>>)
                   /\ db' = r.db
           /\ UNCHANGED ingestVars

Abs(n) == IF n < 0 THEN -n ELSE n

\* vec0's distance between two vectors, as a whole number: vectors of equal
\* text coincide, a different first character and a different length add up
distance(u, v) ==
    (IF u.of[1] = v.of[1] THEN 0 ELSE 3) + Abs(Len(u.of) - Len(v.of))

\* a query that returns the farthest vectors
matched_chunks_farthest(d, query_embeddings, k) ==
    LET Far(S) == {v \in S : \A w \in S :
                       distance(query_embeddings, w.chunk_embeddings)
                           <= distance(query_embeddings, v.chunk_embeddings)}
        F[n \in 0..k, S \in SUBSET d.vec_chunks] ==
            IF n = 0 \/ S = {} THEN {<<>>}
            ELSE UNION {{<<v>> \o r : r \in F[n - 1, S \ {v}]} : v \in Far(S)}
    IN F[k, d.vec_chunks]

\* with matched_chunks as (select chunk_id, distance from vec_chunks where
\* chunk_embeddings match :query_embeddings order by distance limit :k):
\* the k nearest vectors, nearest first, ties in any order
matched_chunks(d, query_embeddings, k) ==
    LET Near(S) == {v \in S : \A w \in S :
                        distance(query_embeddings, v.chunk_embeddings)
                            <= distance(query_embeddings, w.chunk_embeddings)}
        F[n \in 0..k, S \in SUBSET d.vec_chunks] ==
            IF n = 0 \/ S = {} THEN {<<>>}
            ELSE UNION {{<<v>> \o r : r \in F[n - 1, S \ {v}]} : v \in Near(S)}
    IN F[k, d.vec_chunks]

\* left join chunks, left join notes, and the mapping of a row to a result
SearchResult(d, query_embeddings, v) ==
    LET cs == {c \in d.chunks : c.id = v.chunk_id}
        ns == {n \in d.notes : \E c \in cs : c.note_id = n.id}
    IN [file_path |-> IF ns = {} THEN Null ELSE (CHOOSE n \in ns : TRUE).file_path,
        content |-> IF cs = {} THEN Null ELSE (CHOOSE c \in cs : TRUE).content,
        chunk_index |-> IF cs = {} THEN Null ELSE (CHOOSE c \in cs : TRUE).chunk_index,
        similarity_score |-> 1 - distance(query_embeddings, v.chunk_embeddings)]

\* the natural-language queries and limits a client sends
SearchQueries == {Body(2, "a"), Body(5, "b"), Body(1, "b")}
DefaultLimit == 5
SearchLimits == {Undef, Num(1), Num(3), Num(8)}

\* z.number().optional().default(5) and the parameter default limit = 5
LimitOf(limit) == IF limit = Undef THEN DefaultLimit ELSE limit.num

\* Tool 3: embed the query, select the nearest chunks, map the rows
search_notes_db ==
    \E query \in SearchQueries, limit \in SearchLimits :
        LET embedding == Embedding(query)
            args == [query |-> query, limit |-> limit]
        IN /\ \E m \in matched_chunks(db, embedding, LimitOf(limit)) :
                 reply' = ToolResult("search_notes_db", args,
                                     [i \in 1..Len(m) |-> SearchResult(db, embedding, m[i])],
                                     <<"searchChunks">>)
           /\ db' = db
           /\ UNCHANGED ingestVars

\* Tool 3: ollama.embed rejects or answers without an embedding
search_notes_db_embed_fails ==
    \E query \in SearchQueries, limit \in SearchLimits :
        /\ reply' = ToolError("search_notes_db", [query |-> query, limit |-> limit],
                              "Error performing semantic search", <<>>)
        /\ db' = db
        /\ UNCHANGED ingestVars

\* a file of four chunks
LongFile == RawFile("yaml", Str("B"), Undef, Str("y"), Body(14, "b"))

\* the store after a committed run stored the file
Ingested(d, filePath, f) ==
    StoreFile(d, filePath, grayMatter(f).data, grayMatter(f).content,
              splitText(grayMatter(f).content),
              EmbedAll(splitText(grayMatter(f).content))).db

\* stores that ingestion runs leave behind
ServerStores ==
    {EmptyDb,
     Ingested(EmptyDb, "a.md", ListedFile),
     Ingested(Ingested(EmptyDb, "a.md", ListedFile), "b.md", LongFile)}

InitServer ==
    /\ db \in ServerStores
    /\ files = [p \in Paths |-> Absent]
    /\ snapshotFile = [written |-> FALSE, entries |-> EmptySnapshot]
    /\ journal = EmptyDb
    /\ pc = "idle"
    /\ globDiffNotesSnapshotContent = [written |-> FALSE, entries |-> EmptySnapshot]
    /\ changes = <<>>
    /\ snapshot = EmptySnapshot
    /\ idx = 1
    /\ cur = NoCur
    /\ runs = 0
    /\ preRun = EmptyDb
    /\ lastRun = NoRun
    /\ log = <<>>
    /\ txn = NoTxn
    /\ reply = NoReply

NextServer ==
    \/ get_notes_db_schema
    \/ query_notes_db
    \/ search_notes_db
    \/ search_notes_db_embed_fails

SpecServer == InitServer /\ [][NextServer]_vars

----------------------------------------------------------------------------
(* Views used by the properties *)

InTransaction == pc \in {"processing", "embedding", "storing", "throwing"}

\* what another connection sees: the last committed database
CommittedDb == IF InTransaction THEN journal ELSE db

\* the run's COMMIT has been executed
RunCommitted == pc \in {"committed", "done", "crashed"}

ChangeAt(i) == changes[i]

Stored(c) == c.type # "delete"

\* the file of a change parses and has at least one chunk
HasChunks(f) == f # Absent /\ grayMatter(f).ok /\ splitText(grayMatter(f).content) # <<>>

ChunksOf(d, p) == {c \in d.chunks : \E n \in NoteAt(d, p) : c.note_id = n.id}
LinksOf(d, p) == {l \in d.notes_tags : \E n \in NoteAt(d, p) : l.note_id = n.id}

----------------------------------------------------------------------------
(* Properties *)

\* C1: when a step of Processing throws at the k-th change, the run ends with
\* documents, tags, links, chunks and vectors exactly as they were before the
\* run, whatever changes 1..k-1 had already written.
C1_FailedRunRestoresStore == pc = "rolledback" => db = preRun

\* the run failed at change 2 after change 1 had stored a new document
C1_Witness ==
    /\ pc = "rolledback"
    /\ idx = 2
    /\ Stored(ChangeAt(1))
    /\ lastRun.files = files
    /\ HasChunks(files[ChangeAt(1).filePath])
    /\ NoteAt(preRun, ChangeAt(1).filePath) = {}

\* C2: the snapshot file changes only in a step taken after the run's COMMIT,
\* with nothing uncommitted; the diff itself never writes it.
C2_SnapshotOnlyAfterCommit ==
    [][snapshotFile' # snapshotFile => pc = "committed" /\ db = journal /\ idx > Len(changes)]_vars

\* a run ended with the new snapshot on disk, replacing a different one
C2_Witness ==
    /\ pc = "done"
    /\ snapshotFile = [written |-> TRUE, entries |-> snapshot]
    /\ snapshotFile # globDiffNotesSnapshotContent
    /\ db # preRun

\* C3: a run that failed in Processing leaves the snapshot file exactly as the
\* run found it.
C3_FailedRunKeepsSnapshot == pc = "rolledback" => snapshotFile = globDiffNotesSnapshotContent

\* a failed run whose predecessor had written a snapshot
C3_Witness ==
    /\ pc = "rolledback"
    /\ snapshotFile.written
    /\ snapshot # snapshotFile.entries

\* C4: in every committed state a vector row exists for a chunk id iff a
\* chunk with that id exists, one vector per chunk.
C4_VectorIffChunk ==
    LET d == CommittedDb
    IN /\ {v.chunk_id : v \in d.vec_chunks} = {c.id : c \in d.chunks}
       /\ Cardinality(d.vec_chunks) = Cardinality(d.chunks)

\* a committed run removed chunks of the previous state and the store still has chunks
C4_Witness ==
    /\ RunCommitted
    /\ db.chunks # {}
    /\ \E c \in preRun.chunks : c \notin db.chunks

\* C5: after a committed run with a delete change for a path, the path has no
\* document, nothing refers to the former document id (chunks, tag links) or
\* to its former chunks (vectors), and every tag of before the run is kept.
C5_DeleteRemovesDependents ==
    RunCommitted =>
        \A i \in 1..Len(changes) :
            ChangeAt(i).type = "delete" =>
                LET p == ChangeAt(i).filePath
                    oldIds == {n.id : n \in NoteAt(preRun, p)}
                    oldChunkIds == {c.id : c \in ChunksOf(preRun, p)}
                IN /\ NoteAt(db, p) = {}
                   /\ \A n \in db.notes : n.id \notin oldIds
                   /\ \A c \in db.chunks : c.note_id \notin oldIds
                   /\ \A l \in db.notes_tags : l.note_id \notin oldIds
                   /\ \A v \in db.vec_chunks : v.chunk_id \notin oldChunkIds
                   /\ preRun.tags \subseteq db.tags

\* a committed run deleted a document that had chunks and tag links
C5_Witness ==
    /\ RunCommitted
    /\ \E i \in 1..Len(changes) :
          /\ ChangeAt(i).type = "delete"
          /\ ChunksOf(preRun, ChangeAt(i).filePath) # {}
          /\ LinksOf(preRun, ChangeAt(i).filePath) # {}
    /\ db.tags # {}

\* C6 (as claimed): once a run has committed, a created or updated file whose
\* body yields zero chunks has no document, chunk or vector in the store.
C6_EmptyFileNotStored ==
    pc = "committed" =>
        \A i \in 1..Len(changes) :
            LET p == ChangeAt(i).filePath
            IN (/\ Stored(ChangeAt(i))
                /\ grayMatter(files[p]).ok
                /\ splitText(grayMatter(files[p]).content) = <<>>)
               => /\ NoteAt(db, p) = {}
                  /\ ChunksOf(db, p) = {}

\* what the store holds for a path: the document's columns, its chunks with
\* their vectors, its tag names, and the row counts
NoDoc == [nodoc |-> TRUE]

VectorsOf(d, chunk_id) ==
    {v.chunk_embeddings : v \in {w \in d.vec_chunks : w.chunk_id = chunk_id}}

DocView(d, p) ==
    IF NoteAt(d, p) = {} THEN NoDoc
    ELSE LET n == CHOOSE m \in NoteAt(d, p) : TRUE
         IN [title |-> n.title, description |-> n.description, content |-> n.content,
             chunks |-> {<<c.chunk_index, c.content, VectorsOf(d, c.id)>> : c \in ChunksOf(d, p)},
             tags |-> {t.name : t \in {u \in d.tags : \E l \in LinksOf(d, p) : l.tag_id = u.id}}]

DocRows(d, p) ==
    [ids |-> {n.id : n \in NoteAt(d, p)},
     nChunks |-> Cardinality(ChunksOf(d, p)),
     nVectors |-> Cardinality({v \in d.vec_chunks : \E c \in ChunksOf(d, p) : v.chunk_id = c.id}),
     nLinks |-> Cardinality(LinksOf(d, p))]

\* the previous run committed p's file but its snapshot was not saved, and
\* this run ingests the same file again
IngestedTwice(p) ==
    /\ lastRun.outcome = "crashed"
    /\ \E c \in lastRun.changes : Stored(c) /\ c.filePath = p
    /\ \E i \in 1..Len(changes) : Stored(ChangeAt(i)) /\ ChangeAt(i).filePath = p
    /\ lastRun.files[p] = files[p]

\* C7: ingesting the same file a second time leaves the same document (same
\* id and columns), the same (index, text, vector) entries and the same tag
\* links, with the same number of rows.
C7_ReingestIsIdempotent ==
    pc = "committed" =>
        \A p \in Paths :
            IngestedTwice(p) =>
                /\ DocView(db, p) = DocView(preRun, p)
                /\ DocRows(db, p) = DocRows(preRun, p)

\* a file with several chunks and a tag was stored by both runs
C7_Witness ==
    /\ pc = "committed"
    /\ \E p \in Paths :
          /\ IngestedTwice(p)
          /\ DocRows(preRun, p).nChunks > 1
          /\ DocRows(preRun, p).nLinks > 0
          /\ ChunksOf(db, p) # ChunksOf(preRun, p)

\* the documents and tag names of a store, without row ids
StoreView(d) ==
    [docs |-> [p \in Paths |-> DocView(d, p)], tags |-> {t.name : t \in d.tags}]

TagNames(f) ==
    LET t == grayMatter(f).data.tags
    IN IF IsString(t) THEN {t.str}
       ELSE IF IsArray(t) THEN {t.arr[i].str : i \in {j \in 1..Len(t.arr) : IsString(t.arr[j])}}
            ELSE {}

\* the document a file is to be stored as
FileDoc(f) ==
    LET m == grayMatter(f)
        parts == splitText(m.content)
    IN [title |-> IF IsString(m.data.title) THEN m.data.title ELSE Null,
        description |-> IF IsString(m.data.description) THEN m.data.description ELSE Null,
        content |-> m.content,
        chunks |-> {<<i - 1, parts[i], {Embedding(parts[i])}>> : i \in 1..Len(parts)},
        tags |-> TagNames(f)]

\* the store one successful run over a change set produces from a store:
\* deleted paths have no document, files with chunks are stored as they are
\* now, every other path is as before, and tags are only added
RunResult(before, cs, fs) ==
    LET kind(p) == IF \E c \in cs : c.filePath = p /\ c.type = "delete" THEN "delete"
                   ELSE IF \E c \in cs : c.filePath = p /\ HasChunks(fs[p]) THEN "store"
                        ELSE "keep"
    IN [docs |-> [p \in Paths |->
                    IF kind(p) = "delete" THEN NoDoc
                    ELSE IF kind(p) = "store" THEN FileDoc(fs[p])
                         ELSE before.docs[p]],
        tags |-> before.tags \cup UNION {TagNames(fs[p]) : p \in {q \in Paths : kind(q) = "store"}}]

\* the previous run was rolled back and the files are as they were
RetryOfFailedRun == lastRun.outcome = "rolledback" /\ lastRun.files = files

\* C8: the run after a rolled-back run, over unchanged files, has every
\* change of the failed run in its change set, and when it commits the store
\* is what one successful run over these changes produces from the store of
\* before the failed run.
C8_RetryRedoesFailedRun ==
    (pc \notin Ended /\ RetryOfFailedRun) =>
        /\ lastRun.changes \subseteq Range(changes)
        /\ pc = "committed" =>
              StoreView(db) = RunResult(StoreView(lastRun.before), Range(changes), files)

\* the retry of a failed run over two files committed both
C8_Witness ==
    /\ pc = "committed"
    /\ RetryOfFailedRun
    /\ Cardinality(lastRun.changes) = 2
    /\ \A c \in lastRun.changes : Stored(c) /\ HasChunks(files[c.filePath])
    /\ Cardinality(db.notes) = 2

\* C9: after a document that was already stored is ingested again, its
\* chunks and vectors are exactly those of the new body; no chunk or vector
\* of the previous version remains.
C9_ChunksReplaced ==
    pc = "committed" =>
        \A i \in 1..Len(changes) :
            LET p == ChangeAt(i).filePath
                parts == splitText(grayMatter(files[p]).content)
                oldChunkIds == {c.id : c \in ChunksOf(preRun, p)}
            IN (Stored(ChangeAt(i)) /\ HasChunks(files[p]) /\ NoteAt(preRun, p) # {})
               => /\ DocView(db, p).chunks =
                        {<<j - 1, parts[j], {Embedding(parts[j])}>> : j \in 1..Len(parts)}
                  /\ DocRows(db, p).nChunks = Len(parts)
                  /\ DocRows(db, p).nVectors = Len(parts)
                  /\ \A c \in db.chunks : c.id \notin oldChunkIds
                  /\ \A v \in db.vec_chunks : v.chunk_id \notin oldChunkIds

\* a document with three chunks was ingested again with a one-chunk body
C9_Witness ==
    /\ pc = "committed"
    /\ \E i \in 1..Len(changes) :
          LET p == ChangeAt(i).filePath
          IN /\ Stored(ChangeAt(i))
             /\ HasChunks(files[p])
             /\ DocRows(preRun, p).nChunks = 3
             /\ DocRows(db, p).nChunks = 1

\* C10: in every committed state each document's chunk indices are exactly
\* 0..n-1, each once, chunk i is the i-th chunk the splitter yields for the
\* stored body, and every chunk belongs to a document.
C10_ChunkIndicesContiguous ==
    LET d == CommittedDb
    IN /\ \A n \in d.notes :
            LET rows == {c \in d.chunks : c.note_id = n.id}
                parts == splitText(n.content)
            IN /\ Cardinality(rows) = Len(parts)
               /\ {c.chunk_index : c \in rows} = 0..(Len(parts) - 1)
               /\ \A c \in rows : c.content = parts[c.chunk_index + 1]
       /\ \A c \in d.chunks : \E n \in d.notes : c.note_id = n.id

\* two documents with three and two chunks are committed
C10_Witness ==
    /\ ~InTransaction
    /\ \E n \in db.notes : Cardinality({c \in db.chunks : c.note_id = n.id}) = 3
    /\ \E n \in db.notes : Cardinality({c \in db.chunks : c.note_id = n.id}) = 2

\* the tag names linked to the document of a path
LinkedNames(d, p) == {t.name : t \in {u \in d.tags : \E l \in LinksOf(d, p) : l.tag_id = u.id}}

\* the i-th change stores a file that has chunks
StoresFile(i) == Stored(ChangeAt(i)) /\ HasChunks(files[ChangeAt(i).filePath])

\* C11: after a document is ingested again, the tag names linked to it are
\* exactly those of the file's current front matter, and the links of the
\* documents the run does not touch are as before.
C11_TagLinksReplaced ==
    pc = "committed" =>
        /\ \A i \in 1..Len(changes) :
              StoresFile(i) => LinkedNames(db, ChangeAt(i).filePath)
                                   = TagNames(files[ChangeAt(i).filePath])
        /\ \A p \in Paths :
              (\A i \in 1..Len(changes) : ChangeAt(i).filePath # p)
                  => LinksOf(db, p) = LinksOf(preRun, p)

\* a document lost a tag on re-ingestion while another document kept its links
C11_Witness ==
    /\ pc = "committed"
    /\ Len(changes) = 1
    /\ StoresFile(1)
    /\ \E name \in LinkedNames(preRun, ChangeAt(1).filePath) :
          name \notin LinkedNames(db, ChangeAt(1).filePath)
    /\ \E p \in Paths : p # ChangeAt(1).filePath /\ LinksOf(db, p) # {}

\* C12: tag rows are unique by exact name (and by id) in every state; after a
\* committed run every tag name of a stored file has a row with exactly that
\* name and the document is linked to that row; every link refers to a tag row.
C12_TagNamesUnique ==
    /\ \A t1, t2 \in db.tags : (t1.name = t2.name \/ t1.id = t2.id) => t1 = t2
    /\ \A l \in CommittedDb.notes_tags : \E t \in CommittedDb.tags : t.id = l.tag_id
    /\ pc = "committed" =>
          \A i \in 1..Len(changes) :
              StoresFile(i) =>
                  \A name \in TagNames(files[ChangeAt(i).filePath]) :
                      \E t \in db.tags :
                          /\ t.name = name
                          /\ \E l \in LinksOf(db, ChangeAt(i).filePath) : l.tag_id = t.id

\* two documents are linked to the one row of tag x, and X has a row of its own
C12_Witness ==
    /\ ~InTransaction
    /\ \E t, u \in db.tags :
          /\ t.name = "x"
          /\ u.name = "X"
          /\ t.id # u.id
          /\ Cardinality({l.note_id : l \in {m \in db.notes_tags : m.tag_id = t.id}}) = 2

\* C13: in every state the tags linked to a document have distinct names, one
\* link per name, and no run fails in a tag statement, also for a file that
\* lists a tag name twice.
C13_LinkOncePerTag ==
    /\ \A n \in db.notes :
          LET links == {l \in db.notes_tags : l.note_id = n.id}
          IN Cardinality(links) = Cardinality(LinkedNames(db, n.file_path))
    /\ (pc = "throwing" /\ log # <<>>) =>
          log[Len(log)].op \notin {"upsertTag", "insertNoteTag"}

\* a file that lists x twice is committed with one link per distinct name
C13_Witness ==
    /\ pc = "committed"
    /\ \E i \in 1..Len(changes) :
          LET p == ChangeAt(i).filePath
          IN /\ StoresFile(i)
             /\ Len(TagsOf(grayMatter(files[p]).data)) > Cardinality(TagNames(files[p]))
             /\ Cardinality(LinksOf(db, p)) = Cardinality(TagNames(files[p]))
             /\ Cardinality(LinksOf(db, p)) > 1

\* C14: a tag row of a committed state is a tag row of every later committed
\* state.
C14_TagsPersist == [][CommittedDb.tags \subseteq CommittedDb'.tags]_vars

\* a committed state holds a tag that no document is linked to
C14_Witness ==
    /\ ~InTransaction
    /\ \E t \in db.tags : \A l \in db.notes_tags : l.tag_id # t.id

\* C15: in every state of the store, inside and outside a transaction, no two
\* documents share a path or an id.
C15_OneDocumentPerPath ==
    \A d \in {db, journal} :
        \A n1, n2 \in d.notes :
            (n1.file_path = n2.file_path \/ n1.id = n2.id) => n1 = n2

\* a path that already had a document was stored again
C15_Witness ==
    /\ pc = "committed"
    /\ \E i \in 1..Len(changes) :
          /\ StoresFile(i)
          /\ NoteAt(preRun, ChangeAt(i).filePath) # {}
          /\ Cardinality(NoteAt(db, ChangeAt(i).filePath)) = 1

\* the column value of an optional front-matter string
Column(v) == IF IsString(v) THEN v ELSE Null

\* C16: storing a file for a path that has a document keeps the document id
\* and sets title, description and body to the file's values, NULL for a
\* title or description the front matter does not give as a string.
C16_UpsertOverwrites ==
    pc = "committed" =>
        \A i \in 1..Len(changes) :
            LET p == ChangeAt(i).filePath
                m == grayMatter(files[p])
            IN (StoresFile(i) /\ NoteAt(preRun, p) # {}) =>
                   \E old \in NoteAt(preRun, p) :
                       NoteAt(db, p) = {[id |-> old.id, file_path |-> p,
                                         title |-> Column(m.data.title),
                                         description |-> Column(m.data.description),
                                         content |-> m.content]}

\* a document with a title was stored again from a file without one
C16_Witness ==
    /\ pc = "committed"
    /\ \E i \in 1..Len(changes) :
          /\ StoresFile(i)
          /\ \E old \in NoteAt(preRun, ChangeAt(i).filePath) :
                \E new \in NoteAt(db, ChangeAt(i).filePath) :
                    old.title # Null /\ new.title = Null /\ new.content # old.content

\* C17: a file whose embedding answer has another number of vectors than the
\* file has chunks makes the run fail (the next step is the throw that leads
\* to the rollback).
C17_MismatchedCountFails ==
    [][(pc = "storing" /\ Len(cur.embeddings) # Len(cur.chunks)) => pc' = "throwing"]_vars

\* C18: what another connection sees changes only at the COMMIT that follows
\* the whole loop, from the store before the run to the store with all of the
\* run's changes.
C18_ReadersSeeWholeRuns ==
    [][\/ CommittedDb' = CommittedDb
       \/ /\ pc = "processing"
          /\ idx > Len(changes)
          /\ CommittedDb = preRun
          /\ CommittedDb' = db]_vars

\* part of a run of two changes is written while a reader sees the old store
C18_Witness ==
    /\ InTransaction
    /\ Len(changes) = 2
    /\ idx = 2
    /\ db # journal
    /\ CommittedDb = preRun

\* the position of a statement in the order the claim states
ClaimedRank(op) ==
    CASE op \in {"embed", "deleteNote"} -> 0
      [] op = "upsertNote" -> 1
      [] op = "deleteChunksByNoteId" -> 2
      [] op \in {"insertChunk", "insertVecChunk"} -> 3
      [] op = "deleteNotesTagsByNoteId" -> 4
      [] op \in {"upsertTag", "insertNoteTag"} -> 5

\* the position of a statement in the order of the loop body
LoopRank(op) ==
    CASE op \in {"embed", "deleteNote"} -> 0
      [] op = "upsertNote" -> 1
      [] op = "deleteChunksByNoteId" -> 2
      [] op = "deleteNotesTagsByNoteId" -> 3
      [] op \in {"upsertTag", "insertNoteTag"} -> 4
      [] op \in {"insertChunk", "insertVecChunk"} -> 5

\* the log holds, for every file, the embed call and one upsertNote after it
EmbedThenUpsert ==
    \A i \in 1..Len(log) :
        log[i].op = "upsertNote" =>
            /\ i > 1
            /\ log[i - 1] = Event("embed", log[i].filePath, log[i - 1].arg)

\* C19 as stated: per file, embed, upsertNote, the chunks replaced, then the
\* tags replaced.
C19_ClaimedOrder ==
    /\ EmbedThenUpsert
    /\ \A i, j \in 1..Len(log) :
          (i < j /\ log[i].filePath = log[j].filePath)
              => ClaimedRank(log[i].op) <= ClaimedRank(log[j].op)

\* C19: per file, the statements run in the order embed, upsertNote, delete of
\* the old chunks, delete of the old tag links, the tag inserts, then the
\* chunk and vector inserts.
C19_StoreOrder ==
    /\ EmbedThenUpsert
    /\ \A i, j \in 1..Len(log) :
          (i < j /\ log[i].filePath = log[j].filePath)
              => LoopRank(log[i].op) <= LoopRank(log[j].op)

\* a file with tags and several chunks was stored
C19_Witness ==
    /\ pc = "committed"
    /\ \E i, j, k \in 1..Len(log) :
          /\ i < j /\ j < k
          /\ log[i].op = "insertNoteTag"
          /\ log[j].op = "insertChunk"
          /\ log[k].op = "insertChunk"
          /\ log[i].filePath = log[j].filePath
          /\ log[j].filePath = log[k].filePath

\* the embed calls of the run so far
EmbedCalls == SelectSeq(log, LAMBDA e : e.op = "embed")

\* the changes of the run that store a file with chunks
StoredChanges ==
    SelectSeq(changes, LAMBDA c : Stored(c) /\ HasChunks(files[c.filePath]))

\* C20: the embed calls of a run are, in change order, one per stored file
\* that has chunks, each with all chunks of the file in order; after the loop
\* there is one for each such file and none for any other change.
C20_OneEmbedPerFile ==
    /\ Len(EmbedCalls) <= Len(StoredChanges)
    /\ \A k \in 1..Len(EmbedCalls) :
          EmbedCalls[k] = Event("embed", StoredChanges[k].filePath,
                                splitText(grayMatter(files[StoredChanges[k].filePath]).content))
    /\ pc = "committed" => Len(EmbedCalls) = Len(StoredChanges)

\* a run with a several-chunk file and a change that needs no embedding
C20_Witness ==
    /\ pc = "committed"
    /\ Len(changes) = 2
    /\ Len(EmbedCalls) = 1
    /\ Len(EmbedCalls[1].arg) > 1

\* the transaction statements of the run that succeeded
Executed == [i \in 1..Len(SelectSeq(txn.stmts, LAMBDA st : st.ok)) |->
                SelectSeq(txn.stmts, LAMBDA st : st.ok)[i].sql]

\* the transaction statements of a run at each position of the script
TxnShape ==
    /\ pc \in {"diffed", "nochanges"} => txn = NoTxn
    /\ InTransaction => txn.open /\ Executed = <<"BEGIN">>
    /\ RunCommitted =>
          ~txn.open /\ Executed = <<"BEGIN", "COMMIT">> /\ idx > Len(changes)
    /\ pc = "rolledback" =>
          ~txn.open /\ Executed = <<"BEGIN", "ROLLBACK">> /\ idx <= Len(changes)

\* C21: a run with changes executes one BEGIN before its first change, keeps
\* the transaction open over all changes and ends it once: by COMMIT after
\* the last change, by ROLLBACK when a change threw; the store is written
\* only while the transaction is open.
C21_OneTransactionPerRun ==
    [][(db' # db => txn.open) /\ TxnShape']_vars

\* a run of two changes committed and a run rolled back
C21_Witness ==
    /\ pc = "rolledback"
    /\ runs = 2
    /\ lastRun.before # EmptyDb
    /\ Executed = <<"BEGIN", "ROLLBACK">>

\* C22: a run whose change set is empty ends at the early exit: no
\* transaction statement, the store and the snapshot file as the run found
\* them.
C22_NoChangesNoEffect ==
    (runs > 0 /\ changes = <<>>) =>
        /\ pc \in {"diffed", "nochanges"}
        /\ txn = NoTxn
        /\ db = preRun
        /\ journal = preRun
        /\ snapshotFile = globDiffNotesSnapshotContent
        /\ pc = "nochanges" => lastRun.outcome = "nochanges"

\* a run over an ingested, unchanged note set ended without changes
C22_Witness ==
    /\ pc = "nochanges"
    /\ db.notes # {}
    /\ snapshotFile.written

\* C27: a run that opened a transaction ends with the new snapshot in the
\* snapshot file exactly when its transaction was committed.
C27_SnapshotIffCommitted ==
    pc \in {"done", "rolledback", "crashed"} =>
        ((snapshotFile = [written |-> TRUE, entries |-> snapshot]) <=> RunCommitted)

\* C28: a delete change for a path without a document is a step of the loop
\* that leaves the store as it is and goes on to the next change.
C28_DeleteOfMissingDocument ==
    [][(InLoop /\ changes[idx].type = "delete"
              /\ NoteAt(db, changes[idx].filePath) = {})
          => (db' = db /\ pc' = "processing" /\ idx' = idx + 1)]_vars

\* a file skipped as empty was removed while another document is stored, and
\* the run committed
C28_Witness ==
    /\ pc = "committed"
    /\ \E i \in 1..Len(changes) :
          /\ changes[i].type = "delete"
          /\ NoteAt(preRun, changes[i].filePath) = {}
    /\ db.notes # {}
    /\ db = preRun

\* the tag names a front-matter value of tags stands for
ClaimedTagNames(v) ==
    IF IsString(v) THEN {v.str}
    ELSE IF IsArray(v)
         THEN {v.arr[k].str : k \in {j \in 1..Len(v.arr) : IsString(v.arr[j])}}
         ELSE {}

\* C23: a committed file is linked to exactly the tags its front-matter value
\* of tags stands for (a string: that tag; a list: its string entries; any
\* other value or none: no tag), and its title and description are stored
\* only when they are strings.
C23_FrontMatterExtraction ==
    pc = "committed" =>
        \A i \in 1..Len(changes) :
            LET p == ChangeAt(i).filePath
            IN StoresFile(i) =>
                 /\ LinkedNames(db, p) = ClaimedTagNames(files[p].tags)
                 /\ \A n \in NoteAt(db, p) :
                       /\ n.title = IF IsString(files[p].title) THEN files[p].title ELSE Null
                       /\ n.description = IF IsString(files[p].description)
                                          THEN files[p].description ELSE Null
                 /\ NoteAt(db, p) # {}

\* a file with a list of a number and a string as tags, a number as title and
\* a list as description was committed
C23_Witness ==
    /\ pc = "committed"
    /\ files["a.md"].tags = Arr(<<Num(7), Str("y")>>)
    /\ files["a.md"].title = Num(3)
    /\ files["a.md"].description = Arr(<<Str("D")>>)
    /\ LinkedNames(db, "a.md") = {"y"}
    /\ \A n \in NoteAt(db, "a.md") : n.title = Null /\ n.description = Null

\* the query, after leading white space and without regard to case, begins
\* with select or with
BeginsWithSelectOrWith(q) ==
    \E i \in 1..Len(q) :
        /\ \A j \in 1..(i - 1) : q[j] \in WhiteSpace
        /\ \E word \in {select, with} :
             /\ i + Len(word) - 1 <= Len(q)
             /\ \A k \in 1..Len(word) : toLowerCaseChar(q[i + k - 1]) = word[k]

\* C24: query_notes_db hands a query to SQLite only if it begins with select
\* or with (white space trimmed, any case); any other query gets the error
\* result and nothing is prepared or run.
C24_OnlySelectOrWithRuns ==
    reply.tool = "query_notes_db" =>
        /\ reply.prepared # <<>> => BeginsWithSelectOrWith(reply.args.query)
        /\ ~BeginsWithSelectOrWith(reply.args.query) =>
              /\ reply.isError
              /\ reply.text = "Error: Only SELECT and WITH statements are allowed"
              /\ reply.prepared = <<>>

\* an insert that contains the word select was rejected over a filled store
C24_Witness ==
    /\ reply.tool = "query_notes_db"
    /\ reply.args.query = InsertSelect
    /\ reply.isError
    /\ reply.prepared = <<>>
    /\ db.notes # {}

\* C25: no tool call changes the store, and a query that is not allowed, is no
\* valid statement or would write yields an error result.
C25_QuerySurfaceReadOnly ==
    [][/\ db' = db
       /\ reply'.tool = "query_notes_db" =>
             ((~BeginsWithSelectOrWith(reply'.args.query)
               \/ ~prepare(reply'.args.query).valid
               \/ prepare(reply'.args.query).writes # "none") => reply'.isError)]_vars

\* a delete behind a with clause passed the prefix check and failed on the
\* query_only connection, the documents still stored
C25_Witness ==
    /\ reply.tool = "query_notes_db"
    /\ reply.args.query = WithDeleteReturning
    /\ reply.prepared = <<WithDeleteReturning>>
    /\ reply.isError
    /\ db.notes # {}

\* the chunks a result row stands for: those of the row's path and index
RowChunks(row) ==
    {c \in db.chunks : /\ c.chunk_index = row.chunk_index
                       /\ \E n \in NoteAt(db, row.file_path) : c.note_id = n.id}

\* the distance of a chunk's vector from the query
ChunkDistance(q, c) ==
    distance(Embedding(q), (CHOOSE v \in db.vec_chunks : v.chunk_id = c.id).chunk_embeddings)

\* C26: a search with limit L (5 when omitted) returns min(L, number of
\* vectors) rows for distinct chunks, each with the path of the chunk's
\* document, the chunk text, the chunk index and 1 - distance as similarity,
\* in order of ascending distance, and no chunk left out is nearer than a
\* chunk returned.
C26_NearestChunks ==
    (reply.tool = "search_notes_db" /\ ~reply.isError) =>
        LET L == IF reply.args.limit = Undef THEN 5 ELSE reply.args.limit.num
            res == reply.text
            q == reply.args.query
            n == Cardinality(db.vec_chunks)
        IN /\ Len(res) = IF L < n THEN L ELSE n
           /\ \A i \in 1..Len(res) :
                 /\ Cardinality(RowChunks(res[i])) = 1
                 /\ \A c \in RowChunks(res[i]) :
                       /\ res[i].content = c.content
                       /\ res[i].similarity_score = 1 - ChunkDistance(q, c)
           /\ \A i, j \in 1..Len(res) :
                 i < j => /\ RowChunks(res[i]) # RowChunks(res[j])
                          /\ res[i].similarity_score >= res[j].similarity_score
           /\ \A c \in db.chunks :
                 (\A i \in 1..Len(res) : c \notin RowChunks(res[i]))
                     => \A i \in 1..Len(res) :
                            1 - ChunkDistance(q, c) <= res[i].similarity_score

\* a search without limit over seven chunks returned five, an exact match first
C26_Witness ==
    /\ reply.tool = "search_notes_db"
    /\ ~reply.isError
    /\ reply.args.limit = Undef
    /\ Cardinality(db.vec_chunks) = 7
    /\ Len(reply.text) = 5
    /\ reply.text[1].similarity_score = 1
    /\ reply.text[5].similarity_score < reply.text[2].similarity_score

====
